---- MODULE Spec2Model ----
(***************************************************************************)
(* A model of object/store.go of casibase: the Store repository (list,     *)
(* default, get, add, update, delete over the xorm engine), the provider   *)
(* resolution of a Store and the vector refresh orchestration.             *)
(*                                                                         *)
(* Strings that go through the "<owner>/<name>" id format are sequences of *)
(* one-character strings, so that formatting and parsing an id are the     *)
(* concatenation and the split the code performs.  Other strings are TLA+  *)
(* strings.  A Go pointer that may be nil is either Nil or a record.       *)
(***************************************************************************)
EXTENDS Integers, Sequences, FiniteSets, TLC

VARIABLES
  db,         \* the rows of table "store" behind adapter.engine
  ret,        \* what the last completed repository call returned
  pc,         \* per client: where it stands (an UpdateStore is in flight at "update")
  snap,       \* per client: the record its GetStore read
  args,       \* per client: the arguments of its UpdateStore call in flight
  cret,       \* per client: what its UpdateStore returned
  order,      \* the clients in the order their engine Update ran
  providers,  \* the rows of table "provider"
  res         \* what the last provider resolution or refresh call did

vars == <<db, ret, pc, snap, args, cret, order, providers, res>>

(***************************************************************************)
(* Bounds and the small universes inputs are drawn from.                   *)
(***************************************************************************)
MaxRows == 2

Empty == <<>>
T1 == <<"t", "1">>
T2 == <<"t", "2">>
Admin == <<"a", "d", "m", "i", "n">>
NameA == <<"a">>
NameB == <<"b">>
S1 == <<"s", "1">>
P1 == <<"p", "1">>
M1 == <<"m", "1">>
EmbOpenai == <<"e", "m", "b", "-", "o", "p", "e", "n", "a", "i">>
EmbLocal == <<"e", "m", "b", "-", "l", "o", "c", "a", "l">>
Missing == <<"g", "o", "n", "e">>

Owners == {T1, T2}
Names == {NameA, NameB}
Times == {1, 2}
\* Two stores of tenant t1 and one of tenant t2.
Keys == {<<T1, NameA>>, <<T1, NameB>>, <<T2, NameA>>}

Nil == [nil |-> TRUE]
NoErr == "nil"
ErrEngine == "engine: connection failed"
ErrDuplicate == "engine: duplicate entry for primary key"

(***************************************************************************)
(* type Store struct: the primary key columns, the creation time, a plain  *)
(* attribute and the three provider references.                            *)
(***************************************************************************)
PK(store) == <<store.Owner, store.Name>>

Store == {s \in [Owner: Owners, Name: Names, CreatedTime: Times,
                 DisplayName: {"", "kb"},
                 StorageProvider: {Empty, P1},
                 ModelProvider: {Empty},
                 EmbeddingProvider: {Empty}] : PK(s) \in Keys}

\* Store{}: the zero value of every field (CreatedTime "" sorts before every time).
ZeroStore == [Owner |-> Empty, Name |-> Empty, CreatedTime |-> 0, DisplayName |-> "",
              StorageProvider |-> Empty, ModelProvider |-> Empty,
              EmbeddingProvider |-> Empty]

(***************************************************************************)
(* The id format "<owner>/<name>".                                         *)
(***************************************************************************)
GetIdFromOwnerAndName(owner, name) == owner \o <<"/">> \o name

GetId(store) == GetIdFromOwnerAndName(store.Owner, store.Name)

RECURSIVE Split(_)
Split(s) ==
  IF \A i \in 1..Len(s) : s[i] # "/"
  THEN <<s>>
  ELSE LET i == CHOOSE k \in 1..Len(s) :
                  s[k] = "/" /\ \A j \in 1..(k - 1) : s[j] # "/"
       IN  <<SubSeq(s, 1, i - 1)>> \o Split(SubSeq(s, i + 1, Len(s)))

\* util.GetOwnerAndNameFromId: panics unless the id has exactly two tokens.
GetOwnerAndNameFromId(id) ==
  LET tokens == Split(id)
  IN  IF Len(tokens) # 2
      THEN [panic |-> TRUE, owner |-> Empty, name |-> Empty]
      ELSE [panic |-> FALSE, owner |-> tokens[1], name |-> tokens[2]]

(***************************************************************************)
(* adapter.engine: the calls store.go makes on the xorm engine.  A bean's  *)
(* non-zero fields are the conditions of Find and Get; columns Owner and   *)
(* Name are tagged pk, so the table holds one row per (Owner, Name).       *)
(***************************************************************************)
Matches(rows, owner, name) ==
  {r \in rows : (owner = Empty \/ r.Owner = owner) /\ (name = Empty \/ r.Name = name)}

\* Every order of S that is descending in CreatedTime (ties in engine order).
DescCreatedTime(S) ==
  {seq \in [1..Cardinality(S) -> S] :
     /\ \A i, j \in 1..Cardinality(S) : i # j => seq[i] # seq[j]
     /\ \A i, j \in 1..Cardinality(S) : i < j => seq[i].CreatedTime >= seq[j].CreatedTime}

\* engine.Desc("created_time").Find(&stores, &Store{Owner: owner})
EngineFind(rows, owner) == DescCreatedTime(Matches(rows, owner, Empty))

\* engine.Get(&store) with store = Store{Owner: owner, Name: name}
EngineGet(rows, owner, name) ==
  IF Matches(rows, owner, name) = {}
  THEN {[existed |-> FALSE, store |-> Nil]}
  ELSE {[existed |-> TRUE, store |-> r] : r \in Matches(rows, owner, name)}

EngineInsertNoKey(rows, store) ==
  [rows |-> rows \cup {store}, affected |-> 1, err |-> NoErr]

\* engine.Insert(store)
EngineInsert(rows, store) ==
  IF \E r \in rows : PK(r) = PK(store)
  THEN [rows |-> rows, affected |-> 0, err |-> ErrDuplicate]
  ELSE [rows |-> rows \cup {store}, affected |-> 1, err |-> NoErr]

\* Update(store) without AllCols(): only the non-zero fields of store are written.
EngineUpdateNonZero(rows, owner, name, store) ==
  LET target == {r \in rows : PK(r) = <<owner, name>>}
      merged(r) == [f \in DOMAIN r |->
                      IF store[f] = ZeroStore[f] THEN r[f] ELSE store[f]]
  IN  IF target = {}
      THEN [rows |-> rows, affected |-> 0, err |-> NoErr]
      ELSE IF PK(store) # <<owner, name>> /\ \E r \in rows : PK(r) = PK(store)
      THEN [rows |-> rows, affected |-> 0, err |-> ErrDuplicate]
      ELSE [rows |-> (rows \ target) \cup {merged(r) : r \in target},
            affected |-> 1, err |-> NoErr]

\* engine.ID(core.PK{owner, name}).AllCols().Update(store): every column of the
\* row keyed (owner, name), the key columns included, is set from store.
EngineUpdate(rows, owner, name, store) ==
  LET target == {r \in rows : PK(r) = <<owner, name>>}
  IN  IF target = {}
      THEN [rows |-> rows, affected |-> 0, err |-> NoErr]
      ELSE IF PK(store) # <<owner, name>> /\ \E r \in rows : PK(r) = PK(store)
      THEN [rows |-> rows, affected |-> 0, err |-> ErrDuplicate]
      ELSE [rows |-> (rows \ target) \cup {store}, affected |-> 1, err |-> NoErr]

EngineDeleteOwner(rows, owner, name) ==
  LET target == {r \in rows : r.Owner = owner}
  IN  [rows |-> rows \ target, affected |-> Cardinality(target), err |-> NoErr]

\* engine.ID(core.PK{owner, name}).Delete(&Store{})
EngineDelete(rows, owner, name) ==
  LET target == {r \in rows : PK(r) = <<owner, name>>}
  IN  [rows |-> rows \ target, affected |-> Cardinality(target), err |-> NoErr]

(***************************************************************************)
(* The repository functions.  Each takes the table and the outcome of its  *)
(* engine calls (fail: the engine reports an error) and yields what the    *)
(* function returns, with the table it leaves.                             *)
(***************************************************************************)
\* func GetStores(owner): the possible (stores, err) results.
GetStores(rows, owner, fail) ==
  IF fail
  THEN {[stores |-> <<>>, err |-> ErrEngine]}
  ELSE {[stores |-> s, err |-> NoErr] : s \in EngineFind(rows, owner)}

GetDefaultStoreFirst(listed) ==
  IF listed.err # NoErr
  THEN [store |-> Nil, err |-> listed.err]
  ELSE IF Len(listed.stores) > 0
  THEN [store |-> listed.stores[1], err |-> NoErr]
  ELSE [store |-> Nil, err |-> NoErr]

\* func GetDefaultStore(owner), on the (stores, err) its GetStores call returned.
GetDefaultStore(listed) ==
  IF listed.err # NoErr
  THEN [store |-> Nil, err |-> listed.err]
  ELSE IF \E i \in 1..Len(listed.stores) : listed.stores[i].StorageProvider # Empty
  THEN LET i == CHOOSE k \in 1..Len(listed.stores) :
                  /\ listed.stores[k].StorageProvider # Empty
                  /\ \A j \in 1..(k - 1) : listed.stores[j].StorageProvider = Empty
       IN  [store |-> listed.stores[i], err |-> NoErr]
  ELSE IF Len(listed.stores) > 0
  THEN [store |-> listed.stores[1], err |-> NoErr]
  ELSE [store |-> Nil, err |-> NoErr]

\* func getStore(owner, name): the possible (store, err) results.  On an engine
\* error the bean Store{Owner: owner, Name: name} is returned with the error.
getStore(rows, owner, name, fail) ==
  IF fail
  THEN {[store |-> [ZeroStore EXCEPT !.Owner = owner, !.Name = name], err |-> ErrEngine]}
  ELSE {[store |-> g.store, err |-> NoErr] : g \in EngineGet(rows, owner, name)}

\* func GetStore(id): the possible results; getStore's pair is returned as it is.
GetStore(rows, id, fail) ==
  LET on == GetOwnerAndNameFromId(id)
  IN  IF on.panic
      THEN {[panic |-> TRUE, store |-> Nil, err |-> NoErr]}
      ELSE {[panic |-> FALSE, store |-> g.store, err |-> g.err] :
              g \in getStore(rows, on.owner, on.name, fail)}

\* func UpdateStore, lines 120-127: the id is parsed, getStore is called and its
\* record dropped; the call ends here on a panic, an error or a nil store, and
\* goes on to the write otherwise.
UpdateStoreGet(rows, id, store, fail) ==
  LET on == GetOwnerAndNameFromId(id)
  IN  IF on.panic
      THEN {[returns |-> TRUE, panic |-> TRUE, ok |-> FALSE, err |-> NoErr]}
      ELSE {IF g.err # NoErr
            THEN [returns |-> TRUE, panic |-> FALSE, ok |-> FALSE, err |-> g.err]
            ELSE IF store = Nil
            THEN [returns |-> TRUE, panic |-> FALSE, ok |-> FALSE, err |-> NoErr]
            ELSE [returns |-> FALSE, panic |-> FALSE, ok |-> FALSE, err |-> NoErr] :
              g \in getStore(rows, on.owner, on.name, fail)}

\* func UpdateStore, lines 129-135: the write and the result, for a non-nil store.
UpdateStoreWrite(rows, owner, name, store, fail) ==
  LET u == IF fail
           THEN [rows |-> rows, affected |-> 0, err |-> ErrEngine]
           ELSE EngineUpdate(rows, owner, name, store)
  IN  IF u.err # NoErr
      THEN [rows |-> rows, ok |-> FALSE, err |-> u.err, affected |-> u.affected]
      ELSE [rows |-> u.rows, ok |-> TRUE, err |-> NoErr, affected |-> u.affected]

\* func AddStore(store)
AddStore(rows, store, fail) ==
  LET i == IF fail
           THEN [rows |-> rows, affected |-> 0, err |-> ErrEngine]
           ELSE EngineInsert(rows, store)
  IN  IF i.err # NoErr
      THEN [rows |-> rows, ok |-> FALSE, err |-> i.err, affected |-> i.affected]
      ELSE [rows |-> i.rows, ok |-> i.affected # 0, err |-> NoErr,
            affected |-> i.affected]

\* func DeleteStore(store)
DeleteStore(rows, store, fail) ==
  LET d == IF fail
           THEN [rows |-> rows, affected |-> 0, err |-> ErrEngine]
           ELSE EngineDelete(rows, store.Owner, store.Name)
  IN  IF d.err # NoErr
      THEN [rows |-> rows, ok |-> FALSE, err |-> d.err, affected |-> d.affected]
      ELSE [rows |-> d.rows, ok |-> d.affected # 0, err |-> NoErr,
            affected |-> d.affected]

(***************************************************************************)
(* Calls of the repository.  Each function that makes one engine call is   *)
(* one step.  UpdateStore makes two, the existence check and the write,    *)
(* and is two steps: between them the call is in flight (pc = "update",    *)
(* args holds its arguments) and any other call may run.  ret records the  *)
(* last call that returned and what it returned; affected is the engine's  *)
(* row count, which UpdateStore discards.                                  *)
(***************************************************************************)
\* The stores AddStore is called with, and the stores UpdateStore is called with.
StoreInputs == {s \in Store : s.DisplayName = "" /\ s.StorageProvider = Empty}
UpdateInputs ==
  {s \in Store : s.DisplayName = "" /\ s.StorageProvider = P1 /\ s.CreatedTime = 1}
IdInputs == {GetIdFromOwnerAndName(k[1], k[2]) : k \in Keys} \cup {T1}

\* The arguments of DeleteStore: only Owner and Name of the store are read.
KeyInputs == {[ZeroStore EXCEPT !.Owner = k[1], !.Name = k[2]] : k \in Keys}

Ret(op, id, ok, err, store, listing, affected, panic) ==
  [op |-> op, id |-> id, ok |-> ok, err |-> err, store |-> store,
   listing |-> listing, affected |-> affected, panic |-> panic]

NoRet == Ret("none", Empty, FALSE, NoErr, Nil, <<>>, 0, FALSE)

Call(id, store) == [id |-> id, store |-> store]

CallGetDefaultStore(owner, fail) ==
  /\ \E listed \in GetStores(db, owner, fail) :
       LET r == GetDefaultStore(listed)
       IN  ret' = Ret("GetDefaultStore", owner, FALSE, r.err, r.store,
                      listed.stores, 0, FALSE)
  /\ UNCHANGED <<db, pc, snap, args, cret, order, providers, res>>

CallGetStore(id, fail) ==
  /\ \E g \in GetStore(db, id, fail) :
       ret' = Ret("GetStore", id, FALSE, g.err, g.store, <<>>, 0, g.panic)
  /\ UNCHANGED <<db, pc, snap, args, cret, order, providers, res>>

CallAddStore(store, fail) ==
  /\ Cardinality(db) < MaxRows
  /\ LET r == AddStore(db, store, fail)
     IN  /\ db' = r.rows
         /\ ret' = Ret("AddStore", GetId(store), r.ok, r.err, Nil, <<>>,
                       r.affected, FALSE)
  /\ UNCHANGED <<pc, snap, args, cret, order, providers, res>>

\* UpdateStore(id, store), lines 120-127, called by c.
CallUpdateStoreGet(c, id, store, fail) ==
  /\ pc[c] = "idle"
  /\ \E g \in UpdateStoreGet(db, id, store, fail) :
       IF g.returns
       THEN /\ ret' = Ret("UpdateStore", id, g.ok, g.err, Nil, <<>>, 0, g.panic)
            /\ UNCHANGED <<pc, args>>
       ELSE /\ pc' = [pc EXCEPT ![c] = "update"]
            /\ args' = [args EXCEPT ![c] = Call(id, store)]
            /\ ret' = ret
  /\ UNCHANGED <<db, snap, cret, order, providers, res>>

\* UpdateStore(id, store), lines 129-135: the write, and the return.
CallUpdateStoreWrite(c, fail) ==
  /\ pc[c] = "update"
  /\ LET on == GetOwnerAndNameFromId(args[c].id)
         r == UpdateStoreWrite(db, on.owner, on.name, args[c].store, fail)
     IN  /\ db' = r.rows
         /\ ret' = Ret("UpdateStore", args[c].id, r.ok, r.err, Nil, <<>>,
                       r.affected, FALSE)
  /\ pc' = [pc EXCEPT ![c] = "idle"]
  /\ args' = [args EXCEPT ![c] = Nil]
  /\ UNCHANGED <<snap, cret, order, providers, res>>

CallDeleteStore(store, fail) ==
  /\ LET r == DeleteStore(db, store, fail)
     IN  /\ db' = r.rows
         /\ ret' = Ret("DeleteStore", GetId(store), r.ok, r.err, Nil, <<>>,
                       r.affected, FALSE)
  /\ UNCHANGED <<pc, snap, args, cret, order, providers, res>>

Clients == {1, 2}
Updaters == Clients
NoRes == [op |-> "none"]

Init ==
  /\ db = {}
  /\ ret = NoRet
  /\ pc = [c \in Clients |-> "idle"]
  /\ snap = [c \in Clients |-> Nil]
  /\ args = [c \in Clients |-> Nil]
  /\ cret = [c \in Clients |-> NoRet]
  /\ order = <<>>
  /\ providers = {}
  /\ res = NoRes

Next ==
  \/ \E owner \in Owners \cup {Empty}, fail \in BOOLEAN : CallGetDefaultStore(owner, fail)
  \/ \E id \in IdInputs, fail \in BOOLEAN : CallGetStore(id, fail)
  \/ \E store \in StoreInputs : CallAddStore(store, FALSE)
  \/ \E store \in KeyInputs : CallAddStore(store, TRUE)
  \/ \E c \in Updaters, id \in IdInputs, store \in UpdateInputs \cup {Nil} :
       CallUpdateStoreGet(c, id, store, FALSE)
  \/ \E c \in Updaters, id \in IdInputs : CallUpdateStoreGet(c, id, ZeroStore, TRUE)
  \/ \E c \in Updaters, fail \in BOOLEAN : CallUpdateStoreWrite(c, fail)
  \/ \E store \in KeyInputs, fail \in BOOLEAN : CallDeleteStore(store, fail)

Spec == Init /\ [][Next]_vars

(***************************************************************************)
(* Two clients that each read a Store with GetStore, change one field of   *)
(* their copy and call UpdateStore; the other client's calls, and a        *)
(* DeleteStore, may run between the two engine calls of an UpdateStore.    *)
(* cret records what each client's last call returned.                     *)
(***************************************************************************)
\* The copies a client may pass: the record it read with one plain field changed.
Edits(store) ==
  {[store EXCEPT !.DisplayName = d] : d \in {"", "kb"} \ {store.DisplayName}}
  \cup {[store EXCEPT !.StorageProvider = p] : p \in {Empty, P1} \ {store.StorageProvider}}

\* GetStore(id) called by c, which goes on with the record if it got one.
ClientGetStore(c, id, fail) ==
  /\ pc[c] = "idle"
  /\ \E g \in GetStore(db, id, fail) :
       /\ cret' = [cret EXCEPT ![c] =
                     Ret("GetStore", id, FALSE, g.err, g.store, <<>>, 0, g.panic)]
       /\ IF ~g.panic /\ g.err = NoErr /\ g.store # Nil
          THEN /\ snap' = [snap EXCEPT ![c] = g.store]
               /\ pc' = [pc EXCEPT ![c] = "read"]
          ELSE UNCHANGED <<snap, pc>>
  /\ UNCHANGED <<db, ret, args, order, providers, res>>

\* UpdateStore(GetId(store), store), lines 120-127, called by c with its copy.
ClientUpdateStoreGet(c, store, fail) ==
  /\ pc[c] = "read"
  /\ store \in Edits(snap[c])
  /\ args' = [args EXCEPT ![c] = Call(GetId(store), store)]
  /\ \E g \in UpdateStoreGet(db, GetId(store), store, fail) :
       IF g.returns
       THEN /\ cret' = [cret EXCEPT ![c] =
                          Ret("UpdateStore", GetId(store), g.ok, g.err, Nil, <<>>, 0,
                              g.panic)]
            /\ pc' = [pc EXCEPT ![c] = "done"]
       ELSE /\ cret' = cret
            /\ pc' = [pc EXCEPT ![c] = "update"]
  /\ UNCHANGED <<db, ret, snap, order, providers, res>>

\* UpdateStore(id, store), lines 129-135: the write, and the return.
ClientUpdateStoreWrite(c, fail) ==
  /\ pc[c] = "update"
  /\ LET on == GetOwnerAndNameFromId(args[c].id)
         r == UpdateStoreWrite(db, on.owner, on.name, args[c].store, fail)
     IN  /\ db' = r.rows
         /\ cret' = [cret EXCEPT ![c] =
                       Ret("UpdateStore", args[c].id, r.ok, r.err, Nil, <<>>,
                           r.affected, FALSE)]
         /\ order' = IF r.err = NoErr THEN Append(order, c) ELSE order
  /\ pc' = [pc EXCEPT ![c] = "done"]
  /\ UNCHANGED <<ret, snap, args, providers, res>>

ClientTables ==
  {t \in SUBSET {s \in Store : s.Owner = T1 /\ s.CreatedTime = 1} :
     /\ t # {}
     /\ \A r1, r2 \in t : PK(r1) = PK(r2) => r1 = r2}

InitClients ==
  /\ db \in ClientTables
  /\ ret = NoRet
  /\ pc = [c \in Clients |-> "idle"]
  /\ snap = [c \in Clients |-> Nil]
  /\ args = [c \in Clients |-> Nil]
  /\ cret = [c \in Clients |-> NoRet]
  /\ order = <<>>
  /\ providers = {}
  /\ res = NoRes

NextClients ==
  \/ \E c \in Clients, id \in IdInputs, fail \in BOOLEAN : ClientGetStore(c, id, fail)
  \/ \E c \in Clients, store \in Store, fail \in BOOLEAN : ClientUpdateStoreGet(c, store, fail)
  \/ \E c \in Clients, fail \in BOOLEAN : ClientUpdateStoreWrite(c, fail)
  \/ \E store \in KeyInputs : CallDeleteStore(store, FALSE)

SpecClients == InitClients /\ [][NextClients]_vars

(***************************************************************************)
(* Providers.  A Provider row carries Owner, Name, Category, Type and      *)
(* SubType.  The lookups and the client constructors are collaborators of  *)
(* store.go: a lookup yields (record, nil), (nil, nil) when no row         *)
(* matches, or (nil, err); a constructor yields (client, nil) or           *)
(* (nil, err).  env says which of these calls fail in the call at hand and *)
(* what the indexing pipeline returns.                                     *)
(***************************************************************************)
DefaultLimit == 100000
OpenAILimit == 3

DefaultStorage == <<"d", "s">>
DefaultModel == <<"d", "m">>
DefaultEmbedding == <<"d", "e">>

Provider(owner, name, category, type, subType) ==
  [Owner |-> owner, Name |-> name, Category |-> category, Type |-> type,
   SubType |-> subType]

ProviderUniverse ==
  {Provider(Admin, DefaultStorage, "Storage", "Local File System", ""),
   Provider(Admin, DefaultModel, "Model", "OpenAI", "gpt-4"),
   Provider(Admin, DefaultEmbedding, "Embedding", "Hugging Face", "all-MiniLM-L6-v2"),
   Provider(T1, P1, "Storage", "Local File System", ""),
   Provider(T1, M1, "Model", "OpenAI", "gpt-3.5-turbo"),
   Provider(T1, EmbOpenai, "Embedding", "OpenAI", "text-embedding-ada-002"),
   Provider(T1, EmbLocal, "Embedding", "", "")}

RefreshStores ==
  [Owner: {T1}, Name: {S1}, CreatedTime: {1}, DisplayName: {""},
   StorageProvider: {Empty, P1, Missing},
   ModelProvider: {Empty, M1, Missing},
   EmbeddingProvider: {Empty, EmbOpenai, EmbLocal, Missing}]

ErrStorageLookup == "storage provider lookup failed"
ErrStorageClient == "storage client construction failed"
ErrModelLookup == "model provider lookup failed"
ErrEmbeddingLookup == "embedding provider lookup failed"
ErrEmbeddingClient == "embedding client construction failed"
ErrPipeline == "addVectorsForStore failed"

Env == [storageLookup: BOOLEAN, storageClient: BOOLEAN, modelLookup: BOOLEAN,
        embeddingLookup: BOOLEAN, embeddingClient: BOOLEAN,
        pipe: [ok: BOOLEAN, err: {NoErr, ErrPipeline}]]

Lookup(call, arg, provider, err) ==
  [call |-> call, arg |-> arg, provider |-> provider, err |-> err]

\* GetProvider(id): the row keyed by the owner and name the id parses to.  The ids
\* passed here are built from names without "/", so the parse never panics.
GetProvider(table, id, fail, err) ==
  LET on == GetOwnerAndNameFromId(id)
      found == {p \in table : p.Owner = on.owner /\ p.Name = on.name}
  IN  IF fail THEN Lookup("GetProvider", id, Nil, err)
      ELSE IF found = {} THEN Lookup("GetProvider", id, Nil, NoErr)
      ELSE Lookup("GetProvider", id, CHOOSE p \in found : TRUE, NoErr)

\* GetDefaultStorageProvider / GetDefaultModelProvider / GetDefaultEmbeddingProvider:
\* the system-wide provider of the category.
GetDefaultProvider(table, category, fail, err) ==
  LET call == "GetDefault" \o category \o "Provider"
      found == {p \in table : p.Owner = Admin /\ p.Category = category}
  IN  IF fail THEN Lookup(call, Empty, Nil, err)
      ELSE IF found = {} THEN Lookup(call, Empty, Nil, NoErr)
      ELSE Lookup(call, Empty, CHOOSE p \in found : TRUE, NoErr)

\* A client constructor: provider.GetStorageProviderObj(), storage.NewCasdoorProvider(name)
\* or provider.GetEmbeddingProvider().
NewClient(call, arg, fail, err) ==
  IF fail
  THEN [call |-> call, arg |-> arg, obj |-> Nil, err |-> err]
  ELSE [call |-> call, arg |-> arg, obj |-> [kind |-> call, of |-> arg], err |-> NoErr]

(***************************************************************************)
(* Provider resolution of a Store.  Each result carries the calls made on  *)
(* the collaborators, in order.                                            *)
(***************************************************************************)
\* func (store *Store) GetStorageProviderObj()
GetStorageProviderObj(table, store, env) ==
  LET l == IF store.StorageProvider = Empty
           THEN GetDefaultProvider(table, "Storage", env.storageLookup, ErrStorageLookup)
           ELSE GetProvider(table,
                            GetIdFromOwnerAndName(store.Owner, store.StorageProvider),
                            env.storageLookup, ErrStorageLookup)
      c == IF l.provider # Nil
           THEN NewClient("Provider.GetStorageProviderObj", l.provider.Name,
                          env.storageClient, ErrStorageClient)
           ELSE NewClient("NewCasdoorProvider", store.StorageProvider,
                          env.storageClient, ErrStorageClient)
  IN  IF l.err # NoErr
      THEN [obj |-> Nil, err |-> l.err, calls |-> <<l>>]
      ELSE [obj |-> c.obj, err |-> c.err, calls |-> <<l, c>>]

GetModelProviderNoDefault(table, store, env) ==
  LET l == GetProvider(table, GetIdFromOwnerAndName(store.Owner, store.ModelProvider),
                       env.modelLookup, ErrModelLookup)
  IN  [provider |-> l.provider, err |-> l.err, calls |-> <<l>>]

\* func (store *Store) GetModelProvider()
GetModelProvider(table, store, env) ==
  LET l == IF store.ModelProvider = Empty
           THEN GetDefaultProvider(table, "Model", env.modelLookup, ErrModelLookup)
           ELSE GetProvider(table,
                            GetIdFromOwnerAndName(store.Owner, store.ModelProvider),
                            env.modelLookup, ErrModelLookup)
  IN  [provider |-> l.provider, err |-> l.err, calls |-> <<l>>]

\* func (store *Store) GetEmbeddingProvider()
GetEmbeddingProvider(table, store, env) ==
  LET l == IF store.EmbeddingProvider = Empty
           THEN GetDefaultProvider(table, "Embedding", env.embeddingLookup,
                                   ErrEmbeddingLookup)
           ELSE GetProvider(table,
                            GetIdFromOwnerAndName(store.Owner, store.EmbeddingProvider),
                            env.embeddingLookup, ErrEmbeddingLookup)
  IN  [provider |-> l.provider, err |-> l.err, calls |-> <<l>>]

(***************************************************************************)
(* func RefreshStoreVectors(store).  calls are the calls it made on the    *)
(* collaborators, in order, each with what it returned; invoked are its    *)
(* calls of addVectorsForStore.  A nil provider that no step reported as   *)
(* an error is dereferenced: the call panics.                              *)
(***************************************************************************)
BatchLimitAlwaysDefault(embeddingProvider) == DefaultLimit

\* lines 219-222
BatchLimit(embeddingProvider) ==
  IF embeddingProvider.Type = "OpenAI" THEN OpenAILimit ELSE DefaultLimit

PipelineReturnAlwaysOk(pipe) == [ok |-> TRUE, err |-> pipe.err]

\* lines 224-225: ok, err := addVectorsForStore(...); return ok, err
PipelineReturn(pipe) == [ok |-> pipe.ok, err |-> pipe.err]

Outcome(ok, err, panic, calls, invoked) ==
  [ok |-> ok, err |-> err, panic |-> panic, calls |-> calls, invoked |-> invoked]

EmbeddingProviderFailedNever(e) == FALSE

\* lines 210-212: if err != nil, after store.GetEmbeddingProvider()
EmbeddingProviderFailed(e) == e.err # NoErr

RefreshStoreVectors(table, store, env) ==
  LET s == GetStorageProviderObj(table, store, env)
      m == GetModelProvider(table, store, env)
      e == GetEmbeddingProvider(table, store, env)
      c == NewClient("Provider.GetEmbeddingProvider", e.provider.Name,
                     env.embeddingClient, ErrEmbeddingClient)
      t1 == s.calls
      t2 == t1 \o m.calls
      t3 == t2 \o e.calls
      t4 == Append(t3, c)
  IN  IF s.err # NoErr THEN Outcome(FALSE, s.err, FALSE, t1, <<>>)
      ELSE IF m.err # NoErr THEN Outcome(FALSE, m.err, FALSE, t2, <<>>)
      ELSE IF EmbeddingProviderFailed(e) THEN Outcome(FALSE, e.err, FALSE, t3, <<>>)
      ELSE IF e.provider = Nil THEN Outcome(FALSE, NoErr, TRUE, t3, <<>>)
      ELSE IF c.err # NoErr THEN Outcome(FALSE, c.err, FALSE, t4, <<>>)
      ELSE IF m.provider = Nil THEN Outcome(FALSE, NoErr, TRUE, t4, <<>>)
      ELSE LET r == PipelineReturn(env.pipe)
               call == [storageProviderObj |-> s.obj, embeddingProviderObj |-> c.obj,
                        prefix |-> Empty, storeName |-> store.Name,
                        embeddingProviderName |-> e.provider.Name,
                        modelSubType |-> m.provider.SubType,
                        limit |-> BatchLimit(e.provider),
                        returned |-> env.pipe]
           IN  Outcome(r.ok, r.err, FALSE, t4, <<call>>)

(***************************************************************************)
(* One call of a resolution or of the refresh, on a provider table chosen  *)
(* at the start.  res records the call, its store and what it did.         *)
(***************************************************************************)
Res(op, store, out) == [op |-> op, store |-> store, out |-> out]

CallGetStorageProviderObj(store, env) ==
  /\ res = NoRes
  /\ res' = Res("GetStorageProviderObj", store,
                GetStorageProviderObj(providers, store, env))
  /\ UNCHANGED <<db, ret, pc, snap, args, cret, order, providers>>

CallGetModelProvider(store, env) ==
  /\ res = NoRes
  /\ res' = Res("GetModelProvider", store, GetModelProvider(providers, store, env))
  /\ UNCHANGED <<db, ret, pc, snap, args, cret, order, providers>>

CallGetEmbeddingProvider(store, env) ==
  /\ res = NoRes
  /\ res' = Res("GetEmbeddingProvider", store,
                GetEmbeddingProvider(providers, store, env))
  /\ UNCHANGED <<db, ret, pc, snap, args, cret, order, providers>>

CallRefreshStoreVectors(store, env) ==
  /\ res = NoRes
  /\ res' = Res("RefreshStoreVectors", store,
                RefreshStoreVectors(providers, store, env))
  /\ UNCHANGED <<db, ret, pc, snap, args, cret, order, providers>>

\* The outcomes of the calls one resolution makes; the rest of env is not read.
QuietEnv == [storageLookup |-> FALSE, storageClient |-> FALSE, modelLookup |-> FALSE,
             embeddingLookup |-> FALSE, embeddingClient |-> FALSE,
             pipe |-> [ok |-> TRUE, err |-> NoErr]]

InitRefresh ==
  /\ db = {}
  /\ ret = NoRet
  /\ pc = [c \in Clients |-> "idle"]
  /\ snap = [c \in Clients |-> Nil]
  /\ args = [c \in Clients |-> Nil]
  /\ cret = [c \in Clients |-> NoRet]
  /\ order = <<>>
  /\ providers \in SUBSET ProviderUniverse
  /\ res = NoRes

NextRefresh ==
  \/ res = NoRes /\ \E store \in RefreshStores, lookup, client \in BOOLEAN :
       CallGetStorageProviderObj(store, [QuietEnv EXCEPT !.storageLookup = lookup,
                                                         !.storageClient = client])
  \/ res = NoRes /\ \E store \in RefreshStores, lookup \in BOOLEAN :
       CallGetModelProvider(store, [QuietEnv EXCEPT !.modelLookup = lookup])
  \/ res = NoRes /\ \E store \in RefreshStores, lookup \in BOOLEAN :
       CallGetEmbeddingProvider(store, [QuietEnv EXCEPT !.embeddingLookup = lookup])
  \/ res = NoRes /\ \E store \in RefreshStores, env \in Env : CallRefreshStoreVectors(store, env)

SpecRefresh == InitRefresh /\ [][NextRefresh]_vars

(***************************************************************************)
(* Properties of the refresh and of provider resolution, under SpecRefresh.*)
(***************************************************************************)
Refreshed == res.op = "RefreshStoreVectors"

MissingProvider(store, name) ==
  name # Empty /\ ~\E p \in providers : p.Owner = store.Owner /\ p.Name = name

AllEmpty(store) ==
  /\ store.StorageProvider = Empty
  /\ store.ModelProvider = Empty
  /\ store.EmbeddingProvider = Empty

\* C1: RefreshStoreVectors aborts on the first failing step.  A call on a
\* collaborator that returned an error is the last call made, the result is
\* (false, that error) and addVectorsForStore is not invoked; addVectorsForStore is
\* invoked at most once, and only after the storage client, the model provider, the
\* embedding provider and the embedding client were all obtained without error.
C1_AbortsOnFirstFailure ==
  Refreshed =>
    LET o == res.out
    IN  /\ Len(o.invoked) <= 1
        /\ \A i \in 1..Len(o.calls) :
             o.calls[i].err # NoErr =>
               /\ i = Len(o.calls)
               /\ ~o.panic
               /\ o.ok = FALSE
               /\ o.err = o.calls[i].err
               /\ o.invoked = <<>>
        /\ o.invoked # <<>> =>
             /\ Len(o.calls) = 5
             /\ \A i \in 1..5 : o.calls[i].err = NoErr
             /\ o.calls[2].call \in {"Provider.GetStorageProviderObj", "NewCasdoorProvider"}
             /\ o.calls[3].call \in {"GetProvider", "GetDefaultModelProvider"}
             /\ o.calls[4].call \in {"GetProvider", "GetDefaultEmbeddingProvider"}
             /\ o.calls[5].call = "Provider.GetEmbeddingProvider"

\* C1 witness: the embedding provider lookup fails after the first two steps
\* succeeded, and the refresh returns (false, that error) without the pipeline.
C1_Witness ==
  /\ Refreshed
  /\ Len(res.out.calls) = 4
  /\ res.out.calls[4].err = ErrEmbeddingLookup
  /\ res.out.err = ErrEmbeddingLookup
  /\ res.out.invoked = <<>>

\* C2: a store whose ModelProvider or EmbeddingProvider is non-empty and names a
\* provider that does not exist makes GetModelProvider / GetEmbeddingProvider, and
\* RefreshStoreVectors, end in a reported failure (a non-nil error).
C2_MissingProviderIsReported ==
  /\ (res.op = "GetModelProvider" /\ MissingProvider(res.store, res.store.ModelProvider))
       => res.out.err # NoErr
  /\ (res.op = "GetEmbeddingProvider"
        /\ MissingProvider(res.store, res.store.EmbeddingProvider))
       => res.out.err # NoErr
  /\ (Refreshed /\ (\/ MissingProvider(res.store, res.store.ModelProvider)
                    \/ MissingProvider(res.store, res.store.EmbeddingProvider)))
       => (~res.out.panic /\ res.out.err # NoErr)

\* C3: whenever RefreshStoreVectors invokes the pipeline, the limit it passes is 3
\* if the resolved embedding provider's Type is "OpenAI" and 100000 otherwise; a
\* store whose EmbeddingProvider names the OpenAI provider passes 3.
C3_BatchLimit ==
  (Refreshed /\ res.out.invoked # <<>>) =>
    LET embeddingProvider == res.out.calls[4].provider
        limit == res.out.invoked[1].limit
    IN  /\ embeddingProvider # Nil
        /\ embeddingProvider.Type = "OpenAI" => limit = 3
        /\ embeddingProvider.Type # "OpenAI" => limit = 100000
        /\ res.store.EmbeddingProvider = EmbOpenai => limit = 3
        /\ res.store.EmbeddingProvider = EmbLocal => limit = 100000

\* C3 witness: the store {Owner t1, Name s1, EmbeddingProvider emb-openai} reached
\* the pipeline with limit 3.
C3_Witness ==
  /\ Refreshed
  /\ res.store.Owner = T1 /\ res.store.Name = S1
  /\ res.store.EmbeddingProvider = EmbOpenai
  /\ res.out.invoked # <<>>
  /\ res.out.invoked[1].limit = 3

\* C4 as claimed: RefreshStoreVectors never returns (true, non-nil error).
C4_NeverOkWithError ==
  Refreshed => ~(res.out.ok /\ res.out.err # NoErr)

\* C4 amended: RefreshStoreVectors returns what addVectorsForStore returned,
\* unchanged, when it invoked it, and (false, err) or a panic when it did not; it
\* returns (true, non-nil error) only if the pipeline returned that pair.
C4_PassesPipelineResult ==
  Refreshed =>
    LET o == res.out
    IN  /\ o.invoked = <<>> => ~o.ok
        /\ o.invoked # <<>> =>
             /\ o.ok = o.invoked[1].returned.ok
             /\ o.err = o.invoked[1].returned.err
        /\ (o.ok /\ o.err # NoErr) =>
             /\ o.invoked # <<>>
             /\ o.invoked[1].returned = [ok |-> TRUE, err |-> o.err]

\* C4 witness: the pipeline returned (false, error) and so did the refresh.
C4_Witness ==
  /\ Refreshed
  /\ res.out.invoked # <<>>
  /\ res.out.invoked[1].returned = [ok |-> FALSE, err |-> ErrPipeline]
  /\ res.out.ok = FALSE /\ res.out.err = ErrPipeline

\* What C6 says of every resolution of a store with three empty references: the
\* corresponding GetDefault*Provider is the lookup made, and GetProvider is not.
ResolvesThroughDefault(category) ==
  /\ res.out.calls[1].call = "GetDefault" \o category \o "Provider"
  /\ \A i \in 1..Len(res.out.calls) : res.out.calls[i].call # "GetProvider"

\* C6 as claimed: with StorageProvider, ModelProvider and EmbeddingProvider all
\* empty, each resolution goes through its GetDefault*Provider lookup, does not
\* consult GetProvider, and returns an error only if the default lookup or the
\* client construction on the default provider fails.
C6_DefaultsNoOtherError ==
  (res.op # "none" /\ AllEmpty(res.store)) =>
    /\ res.op = "GetStorageProviderObj" =>
         /\ ResolvesThroughDefault("Storage")
         /\ res.out.err # NoErr =>
              \/ res.out.calls[1].err # NoErr
              \/ /\ Len(res.out.calls) = 2
                 /\ res.out.calls[2].call = "Provider.GetStorageProviderObj"
                 /\ res.out.calls[2].err # NoErr
    /\ res.op = "GetModelProvider" =>
         /\ ResolvesThroughDefault("Model")
         /\ res.out.provider = res.out.calls[1].provider
         /\ res.out.err = res.out.calls[1].err
    /\ res.op = "GetEmbeddingProvider" =>
         /\ ResolvesThroughDefault("Embedding")
         /\ res.out.provider = res.out.calls[1].provider
         /\ res.out.err = res.out.calls[1].err

\* C6 amended: as C6, except that GetStorageProviderObj, when the default lookup
\* yields no record, constructs the provider-less client from the empty name and
\* returns its result, an error included; with a default record it returns the
\* result of the client construction on that record.
C6_DefaultsOrCasdoorClient ==
  (res.op # "none" /\ AllEmpty(res.store)) =>
    /\ res.op = "GetStorageProviderObj" =>
         /\ ResolvesThroughDefault("Storage")
         /\ res.out.calls[1].err # NoErr =>
              /\ Len(res.out.calls) = 1
              /\ res.out.err = res.out.calls[1].err
         /\ res.out.calls[1].err = NoErr =>
              /\ Len(res.out.calls) = 2
              /\ res.out.calls[2].call =
                   (IF res.out.calls[1].provider # Nil
                    THEN "Provider.GetStorageProviderObj" ELSE "NewCasdoorProvider")
              /\ res.out.calls[1].provider = Nil => res.out.calls[2].arg = Empty
              /\ res.out.obj = res.out.calls[2].obj
              /\ res.out.err = res.out.calls[2].err
    /\ res.op = "GetModelProvider" =>
         /\ ResolvesThroughDefault("Model")
         /\ res.out.provider = res.out.calls[1].provider
         /\ res.out.err = res.out.calls[1].err
    /\ res.op = "GetEmbeddingProvider" =>
         /\ ResolvesThroughDefault("Embedding")
         /\ res.out.provider = res.out.calls[1].provider
         /\ res.out.err = res.out.calls[1].err

\* C6 witness: no default storage provider exists, and the storage resolution of
\* a store with three empty references returned the casdoor client's error.
C6_Witness ==
  /\ res.op = "GetStorageProviderObj"
  /\ AllEmpty(res.store)
  /\ res.out.calls[1].provider = Nil
  /\ res.out.calls[1].err = NoErr
  /\ res.out.err = ErrStorageClient

(***************************************************************************)
(* Properties of the repository, under Spec.                               *)
(***************************************************************************)
KeyOfId(id) == <<GetOwnerAndNameFromId(id).owner, GetOwnerAndNameFromId(id).name>>

\* C5: UpdateStore reports success (true, nil) only if the write affected a row.
C5_SuccessOnlyIfRowAffected ==
  (ret.op = "UpdateStore" /\ ret.ok /\ ret.err = NoErr) => ret.affected # 0

\* C7: GetDefaultStore(owner), over the owner's stores listed most recently
\* created first, returns the first store of the listing whose StorageProvider is
\* non-empty, else the first store of the listing, else (nil, nil); a listing
\* error is returned as (nil, err).  For [a(""), b("p1")] the result is b.
C7_DefaultStore ==
  ret.op = "GetDefaultStore" =>
    LET L == ret.listing
        owner == ret.id
    IN  /\ ret.err # NoErr => ret.store = Nil
        /\ ret.err = NoErr =>
             /\ {L[i] : i \in 1..Len(L)} =
                  {r \in db : owner = Empty \/ r.Owner = owner}
             /\ Len(L) = Cardinality({r \in db : owner = Empty \/ r.Owner = owner})
             /\ \A i, j \in 1..Len(L) : i < j => L[i].CreatedTime >= L[j].CreatedTime
             /\ (\E i \in 1..Len(L) : L[i].StorageProvider # Empty) =>
                  \E i \in 1..Len(L) :
                    /\ L[i].StorageProvider # Empty
                    /\ \A j \in 1..(i - 1) : L[j].StorageProvider = Empty
                    /\ ret.store = L[i]
             /\ ((\A i \in 1..Len(L) : L[i].StorageProvider = Empty) /\ Len(L) > 0) =>
                  ret.store = L[1]
             /\ Len(L) = 0 => ret.store = Nil
             /\ (Len(L) = 2 /\ L[1].StorageProvider = Empty /\ L[2].StorageProvider = P1)
                  => ret.store = L[2]

\* C7 witness: the listing is [a without storage provider, b with p1] and b is
\* returned.
C7_Witness ==
  /\ ret.op = "GetDefaultStore"
  /\ ret.err = NoErr
  /\ Len(ret.listing) = 2
  /\ ret.listing[1].Name = NameA /\ ret.listing[1].StorageProvider = Empty
  /\ ret.listing[2].Name = NameB /\ ret.listing[2].StorageProvider = P1
  /\ ret.store = ret.listing[2]

\* C9: after any sequence of AddStore, UpdateStore and DeleteStore the table holds
\* at most one record per (owner, name), and UpdateStore(id, store) changes no
\* record other than the one keyed by id (neither of its two steps does).
C9_OneRecordPerKey ==
  /\ [](\A r1, r2 \in db : PK(r1) = PK(r2) => r1 = r2)
  /\ [][(ret'.op = "UpdateStore" /\ ~ret'.panic) =>
          \A r \in db : PK(r) # KeyOfId(ret'.id) => r \in db']_vars

\* C9 witness: an UpdateStore whose store carries another record's key was refused
\* by the primary key, with two records in the table.
C9_Witness ==
  /\ ret.op = "UpdateStore"
  /\ ret.err = ErrDuplicate
  /\ Cardinality(db) = 2

\* C10: DeleteStore of an absent (owner, name) returns (false, nil) and changes no
\* record; DeleteStore of a present pair returns (true, nil) and removes exactly
\* that record; after either the pair is absent, so a second DeleteStore of it
\* returns (false, nil).  (The engine reporting an error is the other outcome.)
\* A step that leaves pc alone and ends with ret a DeleteStore result is a
\* DeleteStore call; the first step of an UpdateStore changes pc and not ret.
C10_DeleteStore ==
  /\ []((ret.op = "DeleteStore" /\ ret.err = NoErr) =>
          ~\E r \in db : PK(r) = KeyOfId(ret.id))
  /\ [][(ret'.op = "DeleteStore" /\ ret'.err = NoErr /\ pc' = pc) =>
          IF \E r \in db : PK(r) = KeyOfId(ret'.id)
          THEN /\ ret'.ok = TRUE
               /\ db' = {r \in db : PK(r) # KeyOfId(ret'.id)}
               /\ Cardinality(db') = Cardinality(db) - 1
          ELSE /\ ret'.ok = FALSE
               /\ db' = db]_vars

\* C10 witness: a DeleteStore returned (true, nil) and another record is still there.
C10_Witness ==
  /\ ret.op = "DeleteStore"
  /\ ret.ok /\ ret.err = NoErr
  /\ db # {}

(***************************************************************************)
(* Properties of concurrent updates, under SpecClients.                    *)
(***************************************************************************)
ChangedField(c) ==
  IF args[c].store.DisplayName # snap[c].DisplayName
  THEN "DisplayName" ELSE "StorageProvider"

\* Both clients read the same record, changed different fields, and their writes
\* ran in the order first, second; the record is still in the table.
BothWrote(first, second) ==
  /\ first # second
  /\ pc[first] = "done" /\ pc[second] = "done"
  /\ snap[first] = snap[second]
  /\ ChangedField(first) # ChangedField(second)
  /\ order = <<first, second>>
  /\ \E r \in db : PK(r) = PK(snap[second])

\* C8: two clients that read the same record, change different fields and both
\* call UpdateStore both get (true, nil), and the persisted record is the copy
\* written last, in its entirety: the field the earlier writer changed is back at
\* the value the later writer read.
C8_LastWriterWins ==
  \A first, second \in Clients :
    BothWrote(first, second) =>
      /\ cret[first].ok /\ cret[first].err = NoErr
      /\ cret[second].ok /\ cret[second].err = NoErr
      /\ \A r \in db : PK(r) = PK(snap[second]) =>
           /\ r = args[second].store
           /\ r[ChangedField(first)] = snap[second][ChangedField(first)]
           /\ r[ChangedField(first)] # args[first].store[ChangedField(first)]

\* C8 witness: client 1 wrote first, client 2 second, and the row is 2's copy.
C8_Witness ==
  /\ BothWrote(1, 2)
  /\ args[2].store \in db
  /\ args[1].store \notin db

====
